---- MODULE Spec2Model ----
(***************************************************************************)
(* Lanczos tridiagonalisation and Golub-Kahan-Lanczos bidiagonalisation    *)
(* with pre-allocation and full re-orthogonalisation (matfree/lanczos.py), *)
(* run by the fixed-count driver.                                          *)
(*                                                                         *)
(* Floating-point values are symbolic terms: a term records which          *)
(* operations produced a value, with the exact rules of arithmetic on      *)
(* zeros (a dot product with a zero vector is 0, subtracting 0*x changes   *)
(* nothing).  Every non-zero term is taken to be finite and non-zero.      *)
(* Arrays keep their shapes and their contents entry by entry, so that     *)
(* indexing, padding, aliasing and transposition are what the code does.   *)
(***************************************************************************)
EXTENDS Integers, Sequences, FiniteSets

\* Requested depths are drawn from -1..MaxDepth.
MaxDepth == 4
\* Vector and matrix dimensions are drawn from 1..MaxDim.
MaxDim == 4

Depths == -1..MaxDepth
Dims == 1..MaxDim

-----------------------------------------------------------------------------
(* Symbolic values *)

T(op, args) == [op |-> op, args |-> args]
ZeroT == T("0", <<>>)
NaNT == T("nan", <<>>)

\* A vector: its dimension n and its value t.  A 2-D array is the sequence
\* of its rows.
Vec(n, t) == [n |-> n, t |-> t]
IsZeroVec(v) == v.t = ZeroT

\* np.zeros((n,)) and np.zeros((r, c))
zeros1(n) == [k \in 1..n |-> ZeroT]
zeros2(r, c) == [j \in 1..r |-> Vec(c, ZeroT)]

\* np.shape of a 2-D array held as rows
Shape(M) == <<Len(M), M[1].n>>
\* M.T: the shape is reversed and the rows of M are the columns of M.T
Transpose(M) == [shape |-> <<Shape(M)[2], Shape(M)[1]>>, columns |-> M]

vector_norm(v) == IF IsZeroVec(v) THEN ZeroT ELSE T("norm", <<v.t>>)
vecdot(a, b) ==
    IF IsZeroVec(a) \/ IsZeroVec(b) THEN ZeroT
    ELSE T("dot", <<a.t, b.t>>)

\* c * v
Scale(c, v) ==
    IF c = ZeroT \/ IsZeroVec(v) THEN Vec(v.n, ZeroT)
    ELSE Vec(v.n, T("mul", <<c, v.t>>))
\* a - b
Sub(a, b) ==
    IF IsZeroVec(b) THEN a
    ELSE IF IsZeroVec(a) THEN Vec(a.n, T("neg", <<b.t>>))
    ELSE Vec(a.n, T("sub", <<a.t, b.t>>))
\* v / s; v / ||v|| is written unit(v)
Div(v, s) ==
    IF s = ZeroT THEN Vec(v.n, NaNT)
    ELSE IF s = vector_norm(v) THEN Vec(v.n, T("unit", <<v.t>>))
    ELSE Vec(v.n, T("div", <<v.t, s>>))
\* a - coeff * b where coeff is vecdot(a, b), written gs(a, b)
SubProjection(a, coeff, b) ==
    IF coeff = ZeroT \/ IsZeroVec(b) THEN a
    ELSE IF coeff = vecdot(a, b) THEN Vec(a.n, T("gs", <<a.t, b.t>>))
    ELSE Sub(a, Scale(coeff, b))

\* The caller's linear operators, each mapping to a vector of dimension m.
Av(v, m) == IF IsZeroVec(v) THEN Vec(m, ZeroT) ELSE Vec(m, T("Av", <<v.t>>))
vA(v, m) == IF IsZeroVec(v) THEN Vec(m, ZeroT) ELSE Vec(m, T("vA", <<v.t>>))

-----------------------------------------------------------------------------
(* Indexing of the pre-allocated arrays (0-based index idx, as in the code). *)

\* A negative index counts from the end.
NormIndex_neg_clamps(idx, len) == IF idx < 0 THEN 0 ELSE idx
NormIndex(idx, len) == IF idx < 0 THEN idx + len ELSE idx

\* arr[idx]: an index past the end reads the last element.
Get(arr, idx) ==
    LET j == NormIndex(idx, Len(arr))
    IN  arr[(IF j < 0 THEN 0 ELSE IF j > Len(arr) - 1 THEN Len(arr) - 1 ELSE j) + 1]

\* arr.at[idx].set(val): an update past the end is dropped.
AtSet_clamps(arr, idx, val) ==
    LET j == NormIndex(idx, Len(arr))
        c == IF j < 0 THEN 0 ELSE IF j > Len(arr) - 1 THEN Len(arr) - 1 ELSE j
    IN  [arr EXCEPT ![c + 1] = val]
AtSet(arr, idx, val) ==
    LET j == NormIndex(idx, Len(arr))
    IN  IF j \in 0..(Len(arr) - 1) THEN [arr EXCEPT ![j + 1] = val] ELSE arr

-----------------------------------------------------------------------------
(* Vector primitives *)

_normalise(vec) ==
    LET length == vector_norm(vec)
    IN  [vec |-> Div(vec, length), length |-> length]

_gram_schmidt_orthogonalise(vec1, vec2) ==
    LET coeff == vecdot(vec1, vec2)
    IN  [vec |-> SubProjection(vec1, coeff, vec2), coeff |-> coeff]

RECURSIVE _gram_schmidt_orthogonalise_set(_, _)
_gram_schmidt_orthogonalise_set(vec, vectors) ==
    IF vectors = <<>> THEN [vec |-> vec, coeffs |-> <<>>]
    ELSE LET one == _gram_schmidt_orthogonalise(vec, Head(vectors))
             rest == _gram_schmidt_orthogonalise_set(one.vec, Tail(vectors))
         IN  [vec |-> rest.vec, coeffs |-> <<one.coeff>> \o rest.coeffs]

-----------------------------------------------------------------------------
(* Errors *)

NoErr == [type |-> "none", raised_by |-> "none", args |-> <<>>]
\* raise ValueError
ValueError(raised_by, args) == [type |-> "ValueError", raised_by |-> raised_by, args |-> args]

-----------------------------------------------------------------------------
(* Lanczos tridiagonalisation *)

lanczos_full_reortho_short_range(depth) ==
    [name |-> "lanczos",
     init |-> [fn |-> "_lanczos_full_reortho_init", depth |-> depth, matrix_shape |-> <<>>],
     step |-> "_lanczos_full_reortho_apply",
     extract |-> "_lanczos_full_reortho_extract",
     lower_upper |-> <<0, depth>>]
\* Builds the descriptor; depth is not looked at here.
lanczos_full_reortho(depth) ==
    [name |-> "lanczos",
     init |-> [fn |-> "_lanczos_full_reortho_init", depth |-> depth, matrix_shape |-> <<>>],
     step |-> "_lanczos_full_reortho_apply",
     extract |-> "_lanczos_full_reortho_extract",
     lower_upper |-> <<0, depth + 1>>]

NoState == [i |-> -1]

_lanczos_full_reortho_init_off_by_one(depth, init_vec) ==
    LET ncols == init_vec.n
    IN  IF depth > ncols \/ depth < 1
        THEN [raised |-> TRUE, err |-> ValueError("_lanczos_full_reortho_init", <<>>),
              state |-> NoState]
        ELSE [raised |-> FALSE, err |-> NoErr,
              state |-> [i |-> 0, basis |-> zeros2(depth + 1, ncols),
                         tridiag |-> <<zeros1(depth + 1), zeros1(depth)>>,
                         q |-> init_vec]]
_lanczos_full_reortho_init(depth, init_vec) ==
    LET ncols == init_vec.n
    IN  IF depth >= ncols \/ depth < 1
        THEN [raised |-> TRUE, err |-> ValueError("_lanczos_full_reortho_init", <<>>),
              state |-> NoState]
        ELSE [raised |-> FALSE, err |-> NoErr,
              state |-> [i |-> 0, basis |-> zeros2(depth + 1, ncols),
                         tridiag |-> <<zeros1(depth + 1), zeros1(depth)>>,
                         q |-> init_vec]]

\* The local `length` of a step: the norm of the incoming working vector.
_lanczos_step_length(state) == _normalise(state.q).length

_lanczos_full_reortho_apply_offdiag_at_i(state) ==
    LET i == state.i
        length == _normalise(state.q).length
        vec1 == _normalise(state.q).vec
        vec2 == _gram_schmidt_orthogonalise_set(vec1, state.basis).vec
        vec3 == _normalise(vec2).vec
        basis == AtSet(state.basis, i, vec3)
        vec4 == Av(vec3, vec3.n)
        basis_vectors_previous == <<Get(basis, i), Get(basis, i - 1)>>
        gs == _gram_schmidt_orthogonalise_set(vec4, basis_vectors_previous)
        diag == AtSet(state.tridiag[1], i, gs.coeffs[1])
        offdiag == AtSet(state.tridiag[2], i, length)
    IN  [i |-> i + 1, basis |-> basis, tridiag |-> <<diag, offdiag>>, q |-> gs.vec]
_lanczos_full_reortho_apply(state) ==
    LET i == state.i
        length == _normalise(state.q).length
        vec1 == _normalise(state.q).vec
        vec2 == _gram_schmidt_orthogonalise_set(vec1, state.basis).vec
        vec3 == _normalise(vec2).vec
        basis == AtSet(state.basis, i, vec3)
        vec4 == Av(vec3, vec3.n)
        basis_vectors_previous == <<Get(basis, i), Get(basis, i - 1)>>
        gs == _gram_schmidt_orthogonalise_set(vec4, basis_vectors_previous)
        diag == AtSet(state.tridiag[1], i, gs.coeffs[1])
        offdiag == AtSet(state.tridiag[2], i - 1, length)
    IN  [i |-> i + 1, basis |-> basis, tridiag |-> <<diag, offdiag>>, q |-> gs.vec]

_lanczos_full_reortho_extract(state) ==
    [basis |-> state.basis, tridiag |-> state.tridiag]

-----------------------------------------------------------------------------
(* Golub-Kahan-Lanczos bidiagonalisation *)

Min(a, b) == IF a < b THEN a ELSE b

\* The text of the error, with the values it is formatted from.
gkl_message(depth, max_depth, matrix_shape) ==
    [text |-> "Depth {depth} exceeds the matrix' dimensions. Expected: 0 <= depth <= min(nrows, ncols) - 1 = {max_depth} for a matrix with shape {matrix_shape}.",
     depth |-> depth, max_depth |-> max_depth, matrix_shape |-> matrix_shape]

gkl_full_reortho_unchecked(depth, matrix_shape) ==
    [raised |-> FALSE, err |-> NoErr,
     alg |-> [name |-> "gkl",
              init |-> [fn |-> "_gkl_full_reortho_init", depth |-> depth,
                        matrix_shape |-> matrix_shape],
              step |-> "_gkl_full_reortho_apply",
              extract |-> "_gkl_full_reortho_extract",
              lower_upper |-> <<0, depth + 1>>]]
gkl_full_reortho(depth, matrix_shape) ==
    LET nrows == matrix_shape[1]
        ncols == matrix_shape[2]
        max_depth == Min(nrows, ncols) - 1
    IN  IF depth > max_depth \/ depth < 0
        THEN [raised |-> TRUE,
              err |-> ValueError("gkl_full_reortho",
                                 <<gkl_message(depth, max_depth, matrix_shape)>>),
              alg |-> [name |-> "none"]]
        ELSE [raised |-> FALSE, err |-> NoErr,
              alg |-> [name |-> "gkl",
                       init |-> [fn |-> "_gkl_full_reortho_init", depth |-> depth,
                                 matrix_shape |-> matrix_shape],
                       step |-> "_gkl_full_reortho_apply",
                       extract |-> "_gkl_full_reortho_extract",
                       lower_upper |-> <<0, depth + 1>>]]

_gkl_full_reortho_init(depth, matrix_shape, init_vec) ==
    LET nrows == matrix_shape[1]
        ncols == matrix_shape[2]
    IN  [i |-> 0, Us |-> zeros2(depth + 1, nrows), Vs |-> zeros2(depth + 1, ncols),
         alphas |-> zeros1(depth + 1), betas |-> zeros1(depth + 1),
         beta |-> ZeroT, vk |-> _normalise(init_vec).vec]

_gkl_full_reortho_apply_writes_next_row(state) ==
    LET i == state.i
        Vs == AtSet(state.Vs, i + 1, state.vk)
        betas == AtSet(state.betas, i, state.beta)
        uk0 == Sub(Av(state.vk, state.Us[1].n), Scale(state.beta, Get(state.Us, i - 1)))
        alpha == _normalise(uk0).length
        uk1 == _normalise(uk0).vec
        uk2 == _gram_schmidt_orthogonalise_set(uk1, state.Us).vec
        uk == _normalise(uk2).vec
        Us == AtSet(state.Us, i, uk)
        alphas == AtSet(state.alphas, i, alpha)
        vk0 == Sub(vA(uk, state.Vs[1].n), Scale(alpha, state.vk))
        beta == _normalise(vk0).length
        vk1 == _normalise(vk0).vec
        vk2 == _gram_schmidt_orthogonalise_set(vk1, Vs).vec
        vk == _normalise(vk2).vec
    IN  [i |-> i + 1, Us |-> Us, Vs |-> Vs, alphas |-> alphas, betas |-> betas,
         beta |-> beta, vk |-> vk]
_gkl_full_reortho_apply(state) ==
    LET i == state.i
        Vs == AtSet(state.Vs, i, state.vk)
        betas == AtSet(state.betas, i, state.beta)
        uk0 == Sub(Av(state.vk, state.Us[1].n), Scale(state.beta, Get(state.Us, i - 1)))
        alpha == _normalise(uk0).length
        uk1 == _normalise(uk0).vec
        uk2 == _gram_schmidt_orthogonalise_set(uk1, state.Us).vec
        uk == _normalise(uk2).vec
        Us == AtSet(state.Us, i, uk)
        alphas == AtSet(state.alphas, i, alpha)
        vk0 == Sub(vA(uk, state.Vs[1].n), Scale(alpha, state.vk))
        beta == _normalise(vk0).length
        vk1 == _normalise(vk0).vec
        vk2 == _gram_schmidt_orthogonalise_set(vk1, Vs).vec
        vk == _normalise(vk2).vec
    IN  [i |-> i + 1, Us |-> Us, Vs |-> Vs, alphas |-> alphas, betas |-> betas,
         beta |-> beta, vk |-> vk]

_gkl_full_reortho_extract_drops_last(state) ==
    [uk_all_T |-> Transpose(state.Us),
     alphas |-> state.alphas,
     betas |-> SubSeq(state.betas, 1, Len(state.betas) - 1),
     vk_all |-> state.Vs,
     beta |-> state.beta,
     vk |-> state.vk]
\* uk_all.T, (alphas, betas[1:]), vk_all, (beta, vk)
_gkl_full_reortho_extract(state) ==
    [uk_all_T |-> Transpose(state.Us),
     alphas |-> state.alphas,
     betas |-> SubSeq(state.betas, 2, Len(state.betas)),
     vk_all |-> state.Vs,
     beta |-> state.beta,
     vk |-> state.vk]

-----------------------------------------------------------------------------
(* The driver and the calls of a client *)

VARIABLES
    pc,        \* "start", "constructed", "looping", "returned" or "raised"
    alg,       \* the descriptor (_DecompAlg) built by the client
    init_vec,  \* the initial vector handed to the driver
    loop,      \* the driver's range (lower, upper) and its loop counter k
    state,     \* the state threaded through the steps
    result,    \* what extract returned
    err,       \* the exception that ended the run, if any
    calls,     \* how often init, step and extract have been called
    hist       \* per step taken: its index i, the scalar it measured, the vector it returned

vars == <<pc, alg, init_vec, loop, state, result, err, calls, hist>>

NoAlg == [name |-> "none"]
NoResult == [none |-> TRUE]
NoVec == Vec(0, ZeroT)

\* alg.init(init_vec): func.partial supplies depth (and matrix_shape).
alg_init(a, v) ==
    IF a.init.fn = "_lanczos_full_reortho_init"
    THEN _lanczos_full_reortho_init(a.init.depth, v)
    ELSE [raised |-> FALSE, err |-> NoErr,
          state |-> _gkl_full_reortho_init(a.init.depth, a.init.matrix_shape, v)]

\* alg.step(state, *matvec_funs)
alg_step(a, st) ==
    IF a.step = "_lanczos_full_reortho_apply"
    THEN _lanczos_full_reortho_apply(st)
    ELSE _gkl_full_reortho_apply(st)

\* alg.extract(state)
alg_extract(a, st) ==
    IF a.extract = "_lanczos_full_reortho_extract"
    THEN _lanczos_full_reortho_extract(st)
    ELSE _gkl_full_reortho_extract(st)

\* What a step measured and handed on: Lanczos' `length` and new working
\* vector; the bidiagonalisation's new (beta, vk).
step_record(a, st, st2) ==
    IF a.name = "lanczos"
    THEN [i |-> st.i, scalar |-> _lanczos_step_length(st), vec |-> st2.q]
    ELSE [i |-> st.i, scalar |-> st2.beta, vec |-> st2.vk]

\* The initial vectors a client may pass: any dimension for Lanczos (the
\* dimension is read off the vector), the matrix' column count for GKL.
InitVecs(a) ==
    IF a.name = "lanczos"
    THEN {Vec(n, T("v0", <<>>)) : n \in Dims}
    ELSE {Vec(a.init.matrix_shape[2], T("v0", <<>>))}

Init ==
    /\ pc = "start"
    /\ alg = NoAlg
    /\ init_vec = NoVec
    /\ loop = [lower |-> 0, upper |-> 0, k |-> 0]
    /\ state = NoState
    /\ result = NoResult
    /\ err = NoErr
    /\ calls = [init |-> 0, step |-> 0, extract |-> 0]
    /\ hist = <<>>

\* alg = lanczos_full_reortho(depth)
call_lanczos_full_reortho ==
    /\ pc = "start"
    /\ \E depth \in Depths : alg' = lanczos_full_reortho(depth)
    /\ pc' = "constructed"
    /\ UNCHANGED <<init_vec, loop, state, result, err, calls, hist>>

\* alg = gkl_full_reortho(depth, matrix_shape)
call_gkl_full_reortho ==
    /\ pc = "start"
    /\ \E depth \in Depths, nrows \in Dims, ncols \in Dims :
          LET r == gkl_full_reortho(depth, <<nrows, ncols>>)
          IN  /\ alg' = r.alg
              /\ err' = r.err
              /\ pc' = IF r.raised THEN "raised" ELSE "constructed"
    /\ UNCHANGED <<init_vec, loop, state, result, calls, hist>>

\* The driver is entered with (lower, upper, init_vec, alg) and calls init.
\* upper is the descriptor's declared bound, or one more.
decompose_init ==
    /\ pc = "constructed"
    /\ \E v \in InitVecs(alg), extra \in 0..1 :
          LET r == alg_init(alg, v)
          IN  /\ init_vec' = v
              /\ loop' = [lower |-> alg.lower_upper[1],
                          upper |-> alg.lower_upper[2] + extra,
                          k |-> alg.lower_upper[1]]
              /\ state' = r.state
              /\ err' = r.err
              /\ pc' = IF r.raised THEN "raised" ELSE "looping"
    /\ calls' = [calls EXCEPT !.init = @ + 1]
    /\ UNCHANGED <<alg, result, hist>>

\* One iteration of the driver's loop.
decompose_step ==
    /\ pc = "looping"
    /\ loop.k < loop.upper
    /\ state' = alg_step(alg, state)
    /\ hist' = Append(hist, step_record(alg, state, alg_step(alg, state)))
    /\ loop' = [loop EXCEPT !.k = @ + 1]
    /\ calls' = [calls EXCEPT !.step = @ + 1]
    /\ UNCHANGED <<pc, alg, init_vec, result, err>>

\* The loop is over: extract and return.
decompose_extract ==
    /\ pc = "looping"
    /\ loop.k >= loop.upper
    /\ result' = alg_extract(alg, state)
    /\ calls' = [calls EXCEPT !.extract = @ + 1]
    /\ pc' = "returned"
    /\ UNCHANGED <<alg, init_vec, loop, state, err, hist>>

Next ==
    \/ call_lanczos_full_reortho
    \/ call_gkl_full_reortho
    \/ decompose_init
    \/ decompose_step
    \/ decompose_extract

Spec == Init /\ [][Next]_vars

-----------------------------------------------------------------------------
(* Properties *)

IsLanczos == alg.name = "lanczos"
IsGKL == alg.name = "gkl"
Running == pc \in {"looping", "returned"}
\* The driver was given the descriptor's own range.
DeclaredRun == Running /\ loop.upper = alg.lower_upper[2]
\* The transition is a call of step.
StepTaken == pc = "looping" /\ calls.step' = calls.step + 1

\* C2: with an initial vector of dimension n, the Lanczos init raises a
\* ValueError for every depth >= n and every depth < 1, before any step is
\* applied and without producing a state, and for 1 <= depth < n it returns
\* the initial state (i = 0) without error.
C2_InitRejectsDepth ==
    (IsLanczos /\ calls.init >= 1) =>
        LET depth == alg.init.depth
            n == init_vec.n
        IN  /\ (depth >= n \/ depth < 1) =>
                /\ pc = "raised"
                /\ err.type = "ValueError"
                /\ calls.step = 0
                /\ hist = <<>>
                /\ state = NoState
            /\ (1 <= depth /\ depth < n) =>
                /\ pc # "raised"
                /\ err = NoErr
                /\ state # NoState
                /\ calls.step = 0 =>
                      /\ state.i = 0
                      /\ state.q = init_vec
                      /\ Shape(state.basis) = <<depth + 1, n>>

\* The smallest rejected depth, depth = n, was rejected by init.
C2_Witness ==
    /\ IsLanczos
    /\ pc = "raised"
    /\ alg.init.depth = init_vec.n
    /\ calls.init = 1

\* C3 as claimed: every invalid depth is signalled by the call that builds
\* the descriptor, before init is ever called, with a message that names the
\* depth and the bound.
C3_SignalledAtConstruction ==
    pc = "raised" =>
        /\ err.raised_by \in {"lanczos_full_reortho", "gkl_full_reortho"}
        /\ calls.init = 0
        /\ Len(err.args) = 1
        /\ err.args[1].depth \in Depths

\* C3 amended: gkl_full_reortho itself rejects a depth outside
\* 0..min(nrows, ncols)-1, with a message carrying the depth and that bound,
\* and never builds a descriptor for one; the Lanczos descriptor is built for
\* any depth and an invalid one is rejected by init, before any step, by a
\* ValueError without a message.
C3_WhereDepthIsRejected ==
    /\ IsGKL =>
          /\ alg.init.depth >= 0
          /\ alg.init.depth <= Min(alg.init.matrix_shape[1], alg.init.matrix_shape[2]) - 1
    /\ (pc = "raised" /\ err.raised_by = "gkl_full_reortho") =>
          /\ alg = NoAlg
          /\ calls.init = 0
          /\ err.type = "ValueError"
          /\ Len(err.args) = 1
          /\ LET msg == err.args[1]
             IN  /\ msg.max_depth = Min(msg.matrix_shape[1], msg.matrix_shape[2]) - 1
                 /\ (msg.depth > msg.max_depth \/ msg.depth < 0)
    /\ (pc = "raised" /\ err.raised_by # "gkl_full_reortho") =>
          /\ IsLanczos
          /\ err.raised_by = "_lanczos_full_reortho_init"
          /\ err.type = "ValueError"
          /\ err.args = <<>>
          /\ calls.init = 1
          /\ calls.step = 0
          /\ (alg.init.depth >= init_vec.n \/ alg.init.depth < 1)

\* A Lanczos descriptor was built for a negative depth and init rejected it.
C3_Witness ==
    /\ IsLanczos
    /\ pc = "raised"
    /\ alg.init.depth < 1
    /\ err.raised_by = "_lanczos_full_reortho_init"

\* C4 as claimed: a Lanczos run with depth = n-1 driven for depth+2 steps
\* does not complete and return a factorisation.
C4_OverrunFails ==
    ~ /\ IsLanczos
      /\ alg.init.depth = init_vec.n - 1
      /\ loop.upper = alg.init.depth + 2
      /\ pc = "returned"

\* C4 amended: the Lanczos step with index depth+1 raises nothing; its
\* writes to basis, diag and offdiag fall outside the arrays and are
\* dropped, so the arrays are those after depth+1 steps, only the index and
\* the working vector move on, and the run goes on to return.
C4_OverrunStepIsDropped ==
    [][(IsLanczos /\ StepTaken /\ state.i = alg.init.depth + 1) =>
          /\ pc' = "looping"
          /\ err' = NoErr
          /\ state'.basis = state.basis
          /\ state'.tridiag = state.tridiag
          /\ state'.i = alg.init.depth + 2]_vars

\* depth = n-1, depth+2 steps taken, and the factorisation was returned.
C4_Witness ==
    /\ IsLanczos
    /\ alg.init.depth = init_vec.n - 1
    /\ calls.step = alg.init.depth + 2
    /\ pc = "returned"
    /\ result.basis = state.basis

\* C5: after depth+1 steps the extracted bidiagonal result has a left basis
\* of shape (depth+1, nrows), a right basis of shape (depth+1, ncols),
\* depth+1 alphas and depth betas.
C5_ExtractedShapes ==
    (IsGKL /\ pc = "returned" /\ DeclaredRun) =>
        LET depth == alg.init.depth
            nrows == alg.init.matrix_shape[1]
            ncols == alg.init.matrix_shape[2]
        IN  /\ result.uk_all_T.shape = <<depth + 1, nrows>>
            /\ Shape(result.vk_all) = <<depth + 1, ncols>>
            /\ Len(result.alphas) = depth + 1
            /\ Len(result.betas) = depth

\* C6: a run over the declared range (0, depth+1) calls init once, then step
\* upper - lower = depth+1 times, each on the state the previous one
\* returned, then extract once; the state's index i is the number of steps
\* applied so far, and is depth+1 when extract is called.
C6_DriverProtocol ==
    /\ (IsLanczos \/ IsGKL) => alg.lower_upper = <<0, alg.init.depth + 1>>
    /\ (pc = "looping" /\ DeclaredRun) =>
          /\ calls.init = 1
          /\ calls.extract = 0
          /\ calls.step = loop.k - loop.lower
          /\ calls.step <= alg.init.depth + 1
          /\ state.i = calls.step
          /\ Len(hist) = calls.step
          /\ \A j \in 1..Len(hist) : hist[j].i = j - 1
    /\ (pc = "returned" /\ DeclaredRun) =>
          /\ calls.init = 1
          /\ calls.extract = 1
          /\ calls.step = loop.upper - loop.lower
          /\ calls.step = alg.init.depth + 1
          /\ state.i = alg.init.depth + 1
          /\ \A j \in 1..Len(hist) : hist[j].i = j - 1

\* A run over the declared range of a descriptor of depth >= 2 has returned.
C6_Witness ==
    /\ pc = "returned"
    /\ DeclaredRun
    /\ alg.init.depth >= 2
    /\ calls.extract = 1

\* The rows of a basis with index >= i are zero.
ZeroFrom(rows, i) == \A r \in 1..Len(rows) : (r - 1 >= i) => IsZeroVec(rows[r])
\* Between two bases, row i was written and no other row changed.
OnlyRowWritten(old, new, i) ==
    /\ Len(new) = Len(old)
    /\ \A r \in 1..Len(old) : (r - 1 # i) => new[r] = old[r]
    /\ ~IsZeroVec(new[i + 1])

PaddingIsZero ==
    (Running /\ calls.step <= alg.init.depth + 1) =>
        /\ IsLanczos => ZeroFrom(state.basis, state.i)
        /\ IsGKL => (ZeroFrom(state.Us, state.i) /\ ZeroFrom(state.Vs, state.i))

\* C7: within depth+1 steps, every basis row with index >= i is still the
\* zero padding init wrote (the Lanczos basis, and Us and Vs), and step i
\* writes row i and no other row.
C7_ZeroPadding ==
    [][/\ PaddingIsZero
       /\ PaddingIsZero'
       /\ (StepTaken /\ state.i <= alg.init.depth) =>
             /\ IsLanczos => OnlyRowWritten(state.basis, state'.basis, state.i)
             /\ IsGKL => /\ OnlyRowWritten(state.Us, state'.Us, state.i)
                         /\ OnlyRowWritten(state.Vs, state'.Vs, state.i)]_vars

\* A bidiagonalisation is in the middle of its run: rows written, rows left.
C7_Witness ==
    /\ IsGKL
    /\ pc = "looping"
    /\ calls.step >= 2
    /\ calls.step <= alg.init.depth
    /\ ~IsZeroVec(state.Vs[2])

\* C8: at the first step the row read as i-1 is a zero row, so the Lanczos
\* step's working vector and diagonal coefficient are those of
\* re-orthogonalising against row 0 alone, and the bidiagonal step's uk and
\* alpha are those computed from Av(vk) alone; also for depth = 0, where
\* rows i-1 and i of Us are the same row.
C8_FirstStepReadsPadding ==
    [][(StepTaken /\ state.i = 0) =>
          /\ IsLanczos =>
                LET row0 == state'.basis[1]
                    only0 == _gram_schmidt_orthogonalise_set(Av(row0, row0.n), <<row0>>)
                IN  /\ IsZeroVec(Get(state'.basis, -1))
                    /\ state'.q = only0.vec
                    /\ state'.tridiag[1][1] = only0.coeffs[1]
          /\ IsGKL =>
                LET uk0 == Av(state.vk, state.Us[1].n)
                    uk2 == _gram_schmidt_orthogonalise_set(_normalise(uk0).vec, state.Us).vec
                IN  /\ IsZeroVec(Get(state.Us, -1))
                    /\ state'.Us[1] = _normalise(uk2).vec
                    /\ state'.alphas[1] = _normalise(uk0).length]_vars

\* The first step of a bidiagonalisation of depth 0 has been taken.
C8_Witness ==
    /\ IsGKL
    /\ alg.init.depth = 0
    /\ calls.step = 1
    /\ ~IsZeroVec(state.Us[1])

\* C9: step i stores the length it measured into offdiag[i-1]; step 0 puts
\* the initial vector's norm into the last entry, offdiag[depth-1], which
\* keeps it until step depth overwrites it.  After depth+1 steps offdiag[k]
\* is the length measured at step k+1 and no entry is the initial vector's
\* norm.
C9_Offdiag ==
    (IsLanczos /\ Running /\ calls.step >= 1 /\ calls.step <= alg.init.depth + 1) =>
        LET depth == alg.init.depth
            offdiag == state.tridiag[2]
            norm0 == vector_norm(init_vec)
        IN  /\ Len(offdiag) = depth
            /\ hist[1].scalar = norm0
            /\ \A j \in 1..(calls.step - 1) : offdiag[j] = hist[j + 1].scalar
            /\ calls.step < depth + 1 => offdiag[depth] = norm0
            /\ calls.step = depth + 1 =>
                  \A k \in 0..(depth - 1) :
                      /\ offdiag[k + 1] = hist[k + 2].scalar
                      /\ offdiag[k + 1] # norm0

\* All depth+1 steps of a Lanczos run of depth >= 2 are done.
C9_Witness ==
    /\ IsLanczos
    /\ Running
    /\ alg.init.depth >= 2
    /\ calls.step = alg.init.depth + 1
    /\ state.tridiag[2][alg.init.depth] = hist[alg.init.depth + 1].scalar

\* C10: step i stores the incoming beta into betas[i], so betas[0] is the
\* initial 0 and betas[k] is the beta' of step k-1.  Extraction drops
\* betas[0]: entry k of the returned betas is the beta' of step k, and the
\* trailing (beta, vk) are the beta' and working vector of the last step,
\* stored neither in the returned betas nor in Vs.
C10_Betas ==
    (IsGKL /\ Running /\ calls.step <= alg.init.depth + 1) =>
        LET depth == alg.init.depth
        IN  /\ state.betas[1] = ZeroT
            /\ \A k \in 1..(calls.step - 1) : state.betas[k + 1] = hist[k].scalar
            /\ (pc = "returned" /\ DeclaredRun) =>
                  /\ Len(result.betas) = depth
                  /\ \A k \in 0..(depth - 1) : result.betas[k + 1] = hist[k + 1].scalar
                  /\ result.beta = hist[depth + 1].scalar
                  /\ result.vk = hist[depth + 1].vec
                  /\ \A k \in 1..Len(result.betas) : result.betas[k] # result.beta
                  /\ \A r \in 1..Len(result.vk_all) : result.vk_all[r] # result.vk

\* A bidiagonalisation of depth >= 2 has returned its result.
C10_Witness ==
    /\ IsGKL
    /\ pc = "returned"
    /\ DeclaredRun
    /\ alg.init.depth >= 2
    /\ Len(result.betas) = alg.init.depth

====
